---- MODULE Spec2Model ----
(***************************************************************************)
(* Model of the shared connection registry (~/.m365-connections.json) and  *)
(* of the two adapters that use it:                                        *)
(*   microsoft-master/server.py  (adapter "mm": registry tools and run)    *)
(*   pwsh-manager/mcp_server.py  (adapter "pwsh-manager")                  *)
(*                                                                         *)
(* Python strings that the code strips, matches or uses as keys are        *)
(* sequences of one-character strings; strings the code only compares for  *)
(* equality or truthiness are TLA+ strings.  A Python dict is a function   *)
(* whose DOMAIN is its key set.  The registry file is a sequence of        *)
(* tokens, written and read through Serialize and Parse.                   *)
(***************************************************************************)
EXTENDS Integers, Sequences, FiniteSets, TLC

VARIABLES
    file,    \* the registry file: [exists, data], data a sequence of tokens
    last,    \* the last gateway invocation and everything it did
    pc,      \* per writer process: position inside connection_add/save_registry
    wname,   \* per writer process: the name argument of its connection_add
    reg,     \* per writer process: the registry its connection_add loaded
    wpos,    \* per writer process: offset of its file descriptor (tokens)
    wbuf,    \* per writer process: tokens written to f but not yet flushed
    lock,    \* holder of the exclusive flock, or NoProc
    res,     \* per writer process: what its connection_add returned
    seen,    \* what the last reader in another process got, and from which function
    stdin,       \* pwsh-manager main: the lines read so far
    request_id,  \* pwsh-manager main: its local variable request_id
    stdout,      \* pwsh-manager main: the responses written so far
    mpc          \* pwsh-manager main: "running", "ended" or "crashed"

loopVars == <<stdin, request_id, stdout, mpc>>
vars == <<file, last, pc, wname, reg, wpos, wbuf, lock, res, seen, stdin, request_id, stdout, mpc>>
procVars == <<pc, wname, reg, wpos, wbuf, lock, res, seen>>

----------------------------------------------------------------------------
(* Strings *)

IsSpace(c) == c \in {" ", "\t", "\n", "\r"}

RECURSIVE LStrip(_)
LStrip(s) == IF s # <<>> /\ IsSpace(Head(s)) THEN LStrip(Tail(s)) ELSE s

RECURSIVE RStrip(_)
RStrip(s) ==
    IF s # <<>> /\ IsSpace(s[Len(s)]) THEN RStrip(SubSeq(s, 1, Len(s) - 1)) ELSE s

\* str.strip()
Strip(s) == RStrip(LStrip(s))

\* truthiness of a str or list value
Truthy(v) == v # <<>>

\* dict.get(key, default)
Get(d, k, default) == IF k \in DOMAIN d THEN d[k] ELSE default

\* "not args.get(f)": the key is absent or its value is falsy
Falsy(d, k) == k \notin DOMAIN d \/ ~Truthy(d[k])

Rep(c, n) == [i \in 1..n |-> c]

HexDigits ==
    {"0", "1", "2", "3", "4", "5", "6", "7", "8", "9",
     "a", "b", "c", "d", "e", "f", "A", "B", "C", "D", "E", "F"}

GuidLen == 36
GuidDashes == {9, 14, 19, 24}

\* re.match(r'^H{8}-H{4}-H{4}-H{4}-H{12}$', s): "$" also matches just before
\* a newline that ends the string.
IsValidGuid(s) ==
    LET core == IF Len(s) = GuidLen + 1 /\ s[Len(s)] = "\n"
                THEN SubSeq(s, 1, GuidLen) ELSE s
    IN  /\ Len(core) = GuidLen
        /\ \A i \in 1..GuidLen :
              IF i \in GuidDashes THEN core[i] = "-" ELSE core[i] \in HexDigits

----------------------------------------------------------------------------
(* The registry document and its file *)

\* A connection is a dict: appId, tenant, description, mcps and, when the
\* file was edited by hand, expectedEmail.  A registry document is a dict
\* whose "connections" value is the ordered list of [name, conn] items (a
\* Python dict keeps insertion order); every other top-level key is opaque.
\* NonDict stands for a JSON value that is not an object.
NonDict == [nondict |-> "value"]
IsDict(d) == "nondict" \notin DOMAIN d

EmptyRegistry == [connections |-> <<>>]

\* registry.get("connections", {})
Conns(d) == Get(d, "connections", <<>>)

Names(cs) == {cs[i].name : i \in DOMAIN cs}

HasName(cs, n) == n \in Names(cs)

\* connections.get(name) / connections[name], for a name that is present
Lookup(cs, n) == cs[CHOOSE i \in DOMAIN cs : cs[i].name = n].conn

NameList(cs) == [i \in DOMAIN cs |-> cs[i].name]

\* connections[name] = conn: replaces in place, or appends a new key
SetConn(cs, n, c) ==
    IF HasName(cs, n)
    THEN [i \in DOMAIN cs |-> IF cs[i].name = n THEN [name |-> n, conn |-> c] ELSE cs[i]]
    ELSE Append(cs, [name |-> n, conn |-> c])

\* PopConn as connections.popitem(): the last entry goes, whatever its name
PopLast(cs, n) == SubSeq(cs, 1, Len(cs) - 1)

\* connections.pop(name)
PopConn(cs, n) == SelectSeq(cs, LAMBDA e : e.name # n)

\* Tokens of the file.  json.dump(data, f, indent=2) followed by f.write('\n').
TOpen == [t |-> "{"]
TClose == [t |-> "}"]
TConnsOpen == [t |-> "connections{"]
TConnsClose == [t |-> "connections}"]
TNewline == [t |-> "newline"]
TNul == [t |-> "nul"]
TValue == [t |-> "value"]
TKey(k, v) == [t |-> "key", k |-> k, v |-> v]
TEntry(e) == [t |-> "entry", name |-> e.name, conn |-> e.conn]

RECURSIVE KeyTokens(_, _)
KeyTokens(d, ks) ==
    IF ks = {} THEN <<>>
    ELSE LET k == CHOOSE x \in ks : TRUE
         IN  <<TKey(k, d[k])>> \o KeyTokens(d, ks \ {k})

Serialize(d) ==
    <<TOpen>>
    \o KeyTokens(d, DOMAIN d \ {"connections"})
    \o (IF "connections" \in DOMAIN d
        THEN <<TConnsOpen>>
             \o [i \in DOMAIN d.connections |-> TEntry(d.connections[i])]
             \o <<TConnsClose>>
        ELSE <<>>)
    \o <<TClose, TNewline>>

AllT(s, t) == \A i \in DOMAIN s : s[i].t = t

\* A JSON object keeps the position of a key's first occurrence and the
\* value of its last one.
DedupEntries(es) ==
    LET firsts == SelectSeq([i \in DOMAIN es |-> [i |-> i, e |-> es[i]]],
                            LAMBDA x : \A j \in 1..(x.i - 1) : es[j].name # x.e.name)
        lastOf(n) == es[CHOOSE i \in DOMAIN es :
                          es[i].name = n /\ \A j \in (i + 1)..Len(es) : es[j].name # n]
    IN  [k \in DOMAIN firsts |->
            [name |-> firsts[k].e.name, conn |-> lastOf(firsts[k].e.name).conn]]

\* The body of an object: key tokens, then at most one connections block.
BodyOK(b) ==
    \/ AllT(b, "key")
    \/ \E j \in DOMAIN b :
          /\ b[j] = TConnsOpen
          /\ AllT(SubSeq(b, 1, j - 1), "key")
          /\ b[Len(b)] = TConnsClose
          /\ j < Len(b)
          /\ AllT(SubSeq(b, j + 1, Len(b) - 1), "entry")

BodyDoc(b) ==
    LET keys == {i \in DOMAIN b : b[i].t = "key"}
        ents == SelectSeq(b, LAMBDA x : x.t = "entry")
        ks   == {b[i].k : i \in keys} \cup
                (IF \E i \in DOMAIN b : b[i] = TConnsOpen THEN {"connections"} ELSE {})
    IN  [k \in ks |->
            IF k = "connections"
            THEN DedupEntries([i \in DOMAIN ents |-> [name |-> ents[i].name, conn |-> ents[i].conn]])
            ELSE b[CHOOSE i \in keys : b[i].k = k /\ \A j \in keys : j > i => b[j].k # k].v]

\* json.loads: [ok, val]; ok = FALSE is JSONDecodeError.  Whitespace may
\* follow the value, anything else there is "Extra data".
Parse(data) ==
    IF data # <<>> /\ data[1] = TValue /\ AllT(Tail(data), "newline")
    THEN [ok |-> TRUE, val |-> NonDict]
    ELSE IF /\ data # <<>>
            /\ data[1] = TOpen
            /\ \E c \in DOMAIN data :
                  /\ data[c] = TClose
                  /\ AllT(SubSeq(data, c + 1, Len(data)), "newline")
                  /\ BodyOK(SubSeq(data, 2, c - 1))
         THEN LET c == CHOOSE c \in DOMAIN data :
                          /\ data[c] = TClose
                          /\ AllT(SubSeq(data, c + 1, Len(data)), "newline")
              IN  [ok |-> TRUE, val |-> BodyDoc(SubSeq(data, 2, c - 1))]
         ELSE [ok |-> FALSE, val |-> EmptyRegistry]

NoFile == [exists |-> FALSE, data |-> <<>>]
FileOf(d) == [exists |-> TRUE, data |-> Serialize(d)]

\* load_registry (microsoft-master), given json.loads of the file's text:
\* FileNotFoundError and JSONDecodeError give the empty registry; a parsed
\* value is returned whatever its type.
LoadedRegistry(exists, parsed) ==
    IF exists /\ parsed.ok THEN parsed.val ELSE EmptyRegistry

load_registry(f) == LoadedRegistry(f.exists, Parse(f.data))

\* load_connections (pwsh-manager): data.get("connections", {}) under
\* "except Exception", so a document that is not an object also gives {}.
LoadedConnections(exists, parsed) ==
    IF exists /\ parsed.ok /\ IsDict(parsed.val) THEN Conns(parsed.val) ELSE <<>>

load_connections(f) == LoadedConnections(f.exists, Parse(f.data))

\* save_registry run to completion with no other process in between.
\* io: "ok"; "open_fails" (open raises, nothing touched); "write_fails"
\* (open truncated the file, then the write raised).  Returns [ok, file].
save_registry(f, data, io) ==
    CASE io = "ok"          -> [ok |-> TRUE,  file |-> FileOf(data)]
      [] io = "open_fails"  -> [ok |-> FALSE, file |-> f]
      [] io = "write_fails" -> [ok |-> FALSE, file |-> [exists |-> TRUE, data |-> <<>>]]

----------------------------------------------------------------------------
(* Results *)

\* The text of a result: key is the JSON key that leads it ("error",
\* "success", "message") or "text" for plain text, fmt names the format
\* string, arg lists the values formatted into it (each a string).
Text(key, fmt, arg) == [key |-> key, fmt |-> fmt, arg |-> arg]
NoResult == Text("none", "", <<>>)

\* How a call ends: it returns val, or raises exc.
Return(v) == [kind |-> "return", val |-> v, exc |-> "none"]
Raise(e) == [kind |-> "raise", val |-> NoResult, exc |-> e]

\* a list of Python literals (field names) as strings
Lits(fs) == [i \in DOMAIN fs |-> <<fs[i]>>]

----------------------------------------------------------------------------
(* microsoft-master: registry tools *)

AddFields == <<"name", "tenant", "appId", "description", "mcps">>

\* [out, file, saved, calls]: the outcome, the file afterwards, whether
\* save_registry was called, and the requests sent to the pool.
Done(out, f, saved) == [out |-> out, file |-> f, saved |-> saved, calls |-> <<>>]

\* NewConn with tenant and description taking each other's place
NewConnSwapped(app_id, tenant, desc, mcps) ==
    [appId |-> app_id, tenant |-> desc, description |-> tenant, mcps |-> mcps]

\* the record _connection_add stores
NewConn(app_id, tenant, desc, mcps) ==
    [appId |-> app_id, tenant |-> tenant, description |-> desc, mcps |-> mcps]

\* WithConn as a fresh document: {"connections": {...}}
WithConnFresh(registry, name, conn) ==
    [connections |-> SetConn(Conns(registry), name, conn)]

\* WithConn with the mapping replaced instead of extended:
\* registry["connections"] = {name: conn}
WithConnOnly(registry, name, conn) ==
    [k \in DOMAIN registry \cup {"connections"} |->
        IF k = "connections" THEN <<[name |-> name, conn |-> conn]>> ELSE registry[k]]

\* registry.setdefault("connections", {})[name] = conn
WithConn(registry, name, conn) ==
    [k \in DOMAIN registry \cup {"connections"} |->
        IF k = "connections" THEN SetConn(Conns(registry), name, conn) ELSE registry[k]]

\* registry["connections"].pop(name)
WithoutConn(registry, name) ==
    [registry EXCEPT !["connections"] = PopConn(registry["connections"], name)]

SaveFailed(f) == Done(Return(Text("error", "Failed to save", <<>>)), f, TRUE)

\* AddSaved with the result of save_registry ignored
AddSavedUnchecked(saved, name) ==
    Done(Return(Text("success", "Connection '{}' added", <<name>>)), saved.file, TRUE)

\* lines 286-289: the registry with the new record is saved
AddSaved(saved, name) ==
    IF saved.ok
    THEN Done(Return(Text("success", "Connection '{}' added", <<name>>)), saved.file, TRUE)
    ELSE SaveFailed(saved.file)

\* AddLoaded without the test of lines 283-284
AddLoadedOverwrite(registry, name, conn, f, io) ==
    IF ~IsDict(registry)
    THEN Done(Raise("AttributeError"), f, FALSE)
    ELSE AddSaved(save_registry(f, WithConn(registry, name, conn), io), name)

\* lines 282-289
AddLoaded(registry, name, conn, f, io) ==
    IF ~IsDict(registry)
    THEN Done(Raise("AttributeError"), f, FALSE)
    ELSE IF HasName(Conns(registry), name)
    THEN Done(Return(Text("error", "'{}' already exists. Use connection_update.", <<name>>)),
              f, FALSE)
    ELSE AddSaved(save_registry(f, WithConn(registry, name, conn), io), name)

\* lines 276-289
AddChecked(missing, app_id, args, f, io) ==
    IF missing # <<>>
    THEN Done(Return(Text("error", "Missing: {}", Lits(missing))), f, FALSE)
    ELSE IF ~IsValidGuid(app_id)
    THEN Done(Return(Text("error", "Invalid appId format: {}", <<app_id>>)), f, FALSE)
    ELSE AddLoaded(load_registry(f),
                   Strip(Get(args, "name", <<>>)),
                   NewConn(app_id,
                           Strip(Get(args, "tenant", <<>>)),
                           Strip(Get(args, "description", <<>>)),
                           Get(args, "mcps", <<>>)),
                   f, io)

_connection_add(args, f, io) ==
    AddChecked(SelectSeq(AddFields, LAMBDA fld : Falsy(args, fld)),
               Strip(Get(args, "appId", <<>>)), args, f, io)

\* lines 301-304
RemoveSaved(saved, name, removed) ==
    IF saved.ok
    THEN Done(Return([key |-> "success", fmt |-> "'{}' removed", arg |-> <<name>>,
                      conn |-> removed]),
              saved.file, TRUE)
    ELSE SaveFailed(saved.file)

\* lines 294-304
RemoveLoaded(registry, name, f, io) ==
    IF ~Truthy(name)
    THEN Done(Return(Text("error", "name is required", <<>>)), f, FALSE)
    ELSE IF ~IsDict(registry)
    THEN Done(Raise("AttributeError"), f, FALSE)
    ELSE IF ~HasName(Conns(registry), name)
    THEN Done(Return([key |-> "error", fmt |-> "'{}' not found", arg |-> <<name>>,
                      available |-> NameList(Conns(registry))]),
              f, FALSE)
    ELSE RemoveSaved(save_registry(f, WithoutConn(registry, name), io), name,
                     Lookup(Conns(registry), name))

_connection_remove(args, f, io) ==
    RemoveLoaded(load_registry(f), Strip(Get(args, "name", <<>>)), f, io)

UpdateFields == <<"appId", "tenant", "description">>

\* Updated without line 326, updated.append("mcps")
UpdatedNoMcps(args) == SelectSeq(UpdateFields, LAMBDA fld : ~Falsy(args, fld))

\* lines 318-326: the fields of args that are set, in the order they are
\* appended to "updated"
Updated(args) ==
    SelectSeq(UpdateFields, LAMBDA fld : ~Falsy(args, fld))
    \o (IF Falsy(args, "mcps") THEN <<>> ELSE <<"mcps">>)

\* UpdatedConn storing the values as supplied: conn[field] = args[field]
UpdatedConnUnstripped(conn, args, fields) ==
    [k \in DOMAIN conn \cup {fields[i] : i \in DOMAIN fields} |->
        IF \A i \in DOMAIN fields : fields[i] # k THEN conn[k] ELSE args[k]]

\* UpdatedConn as a new dict built from the supplied fields only
UpdatedConnOnly(conn, args, fields) ==
    [k \in {fields[i] : i \in DOMAIN fields} |->
        IF k = "mcps" THEN args[k] ELSE Strip(args[k])]

\* lines 322 and 325: conn[field] = args[field].strip(); conn["mcps"] = args["mcps"]
UpdatedConn(conn, args, fields) ==
    [k \in DOMAIN conn \cup {fields[i] : i \in DOMAIN fields} |->
        IF \A i \in DOMAIN fields : fields[i] # k THEN conn[k]
        ELSE IF k = "mcps" THEN args[k] ELSE Strip(args[k])]

\* lines 331-333
UpdateSaved(saved, updated, conn) ==
    IF saved.ok
    THEN Done(Return([key |-> "success", fmt |-> "updated", arg |-> Lits(updated),
                      conn |-> conn]),
              saved.file, TRUE)
    ELSE SaveFailed(saved.file)

\* lines 316-333
UpdateFound(registry, name, conn, updated, args, f, io) ==
    IF ~Falsy(args, "appId") /\ ~IsValidGuid(args["appId"])
    THEN Done(Return(Text("error", "Invalid appId: {}", <<args["appId"]>>)), f, FALSE)
    ELSE IF updated = <<>>
    THEN Done(Return(Text("message", "No changes", <<>>)), f, FALSE)
    ELSE UpdateSaved(save_registry(f, WithConn(registry, name, conn), io), updated, conn)

\* lines 309-316
UpdateLoaded(registry, name, args, f, io) ==
    IF ~Truthy(name)
    THEN Done(Return(Text("error", "name is required", <<>>)), f, FALSE)
    ELSE IF ~IsDict(registry)
    THEN Done(Raise("AttributeError"), f, FALSE)
    ELSE IF ~HasName(Conns(registry), name)
    THEN Done(Return(Text("error", "'{}' not found", <<name>>)), f, FALSE)
    ELSE UpdateFound(registry, name,
                     UpdatedConn(Lookup(Conns(registry), name), args, Updated(args)),
                     Updated(args), args, f, io)

_connection_update(args, f, io) ==
    UpdateLoaded(load_registry(f), Strip(Get(args, "name", <<>>)), args, f, io)

----------------------------------------------------------------------------
(* microsoft-master: Pool Client and run *)

\* What the network does with one request: a JSON body comes back, the
\* request times out, or it fails in another way.
NoBody == [nobody |-> "None"]
NetJson(body) == [kind |-> "json", body |-> body]
NetTimeout == [kind |-> "timeout", body |-> NoBody]
NetFail == [kind |-> "fail", body |-> NoBody]

\* one request as the pool sees it
PoolCall(adapter, endpoint, method, data) ==
    [adapter |-> adapter, endpoint |-> endpoint, method |-> method, data |-> data]

call_pool(net) ==
    CASE net.kind = "json"    -> net.body
      [] net.kind = "timeout" -> [status |-> "error", error |-> <<"Request timed out">>]
      [] net.kind = "fail"    -> [status |-> "error", error |-> <<"str(e)">>]

ESC == "ESC"
Digits == {"0", "1", "2", "3", "4", "5", "6", "7", "8", "9"}

\* index of the first element of s at or after i that is not in cls
RECURSIVE SkipClass(_, _, _)
SkipClass(s, i, cls) ==
    IF i <= Len(s) /\ s[i] \in cls THEN SkipClass(s, i + 1, cls) ELSE i

\* re.sub(r'\x1b\[[0-9;]*m', '', s)
RECURSIVE StripSgr(_)
StripSgr(s) ==
    IF s = <<>> THEN <<>>
    ELSE LET j == SkipClass(s, 3, Digits \cup {";"})
         IN  IF Len(s) >= 3 /\ s[1] = ESC /\ s[2] = "[" /\ j <= Len(s) /\ s[j] = "m"
             THEN StripSgr(SubSeq(s, j + 1, Len(s)))
             ELSE <<s[1]>> \o StripSgr(Tail(s))

\* re.sub(r'\x1b\[\?[0-9]+[hl]', '', s)
RECURSIVE StripCursor(_)
StripCursor(s) ==
    IF s = <<>> THEN <<>>
    ELSE LET j == SkipClass(s, 4, Digits)
         IN  IF /\ Len(s) >= 5 /\ s[1] = ESC /\ s[2] = "[" /\ s[3] = "?"
                /\ j > 4 /\ j <= Len(s) /\ s[j] \in {"h", "l"}
             THEN StripCursor(SubSeq(s, j + 1, Len(s)))
             ELSE <<s[1]>> \o StripCursor(Tail(s))

LowerOf(c) ==
    CASE c = "A" -> "a" [] c = "B" -> "b" [] c = "X" -> "x" [] c = "Y" -> "y"
      [] OTHER -> c

\* str.lower()
Lower(s) == [i \in DOMAIN s |-> LowerOf(s[i])]

\* registry.get("connections", {}).get(connection, {})
ConnConfig(registry, connection) ==
    IF HasName(Conns(registry), connection)
    THEN Lookup(Conns(registry), connection)
    ELSE <<>>

\* [out, file, saved, calls] of a tool that only talks to the pool
Called(out, f, calls) == [out |-> out, file |-> f, saved |-> FALSE, calls |-> calls]

\* lines 196-210, given the two answers
DiscoveryResult(result, metrics, f) ==
    IF ~IsDict(result)
    THEN Called(Raise("AttributeError"), f,
                <<PoolCall("mm", "/connections", "GET", NoBody)>>)
    ELSE Called(IF ~IsDict(metrics) THEN Raise("AttributeError")
                ELSE Return([key |-> "text", fmt |-> "Available Connections",
                             arg |-> NameList(Get(result, "connections", <<>>)),
                             metrics |-> metrics]),
                f,
                <<PoolCall("mm", "/connections", "GET", NoBody),
                  PoolCall("mm", "/metrics", "GET", NoBody)>>)

\* the "no params" branch of run: GET /connections, then GET /metrics
RunDiscovery(f, nets) == DiscoveryResult(call_pool(nets[1]), call_pool(nets[2]), f)

\* SignInHint with the tenant taken first
SignInHintTenantFirst(expected_email, tenant) ==
    IF Truthy(tenant) THEN << <<"Sign in with your @{} account">>, tenant >>
    ELSE IF Truthy(expected_email) THEN << <<"SIGN IN AS">>, expected_email >>
    ELSE <<>>

\* lines 232-236
SignInHint(expected_email, tenant) ==
    IF Truthy(expected_email) THEN << <<"SIGN IN AS">>, expected_email >>
    ELSE IF Truthy(tenant) THEN << <<"Sign in with your @{} account">>, tenant >>
    ELSE <<>>

\* lines 226-240
AuthRequired(result, registry, conn_config, connection, module) ==
    IF ~IsDict(registry) THEN Raise("AttributeError")
    ELSE Return(Text("text", "DEVICE CODE, devicelogin, hint, retry",
                     <<Get(result, "device_code", <<>>)>>
                     \o SignInHint(Get(conn_config, "expectedEmail", <<>>),
                                   Get(conn_config, "tenant", <<>>))
                     \o <<connection, <<module>>>>))

\* line 264
Rendered(output) ==
    IF Truthy(output) THEN Return(Text("text", "{}", <<output>>))
    ELSE Return(Text("text", "(no output)", <<>>))

\* WithWarning with the two addresses compared as they are
WithWarningExact(output, expected_email, authenticated_as) ==
    IF /\ Truthy(authenticated_as)
       /\ Truthy(expected_email)
       /\ expected_email # authenticated_as
    THEN <<"WARNING: Wrong account! Expected ">> \o expected_email
         \o <<", got ">> \o authenticated_as \o <<"\n", "\n">> \o output
    ELSE output

\* lines 260-262
WithWarning(output, expected_email, authenticated_as) ==
    IF /\ Truthy(authenticated_as)
       /\ Truthy(expected_email)
       /\ Lower(expected_email) # Lower(authenticated_as)
    THEN <<"WARNING: Wrong account! Expected ">> \o expected_email
         \o <<", got ">> \o authenticated_as \o <<"\n", "\n">> \o output
    ELSE output

\* lines 248-264
Success(output, authenticated_as, registry, conn_config) ==
    IF Truthy(authenticated_as) /\ ~IsDict(registry) THEN Raise("AttributeError")
    ELSE Rendered(Strip(WithWarning(StripCursor(StripSgr(output)),
                                    Get(conn_config, "expectedEmail", <<>>),
                                    authenticated_as)))

\* the Auth-State Dispatcher (lines 224-266): the rendering of the pool's
\* answer to /run; registry is what load_registry returns when it is called
Dispatch(result, status, registry, conn_config, connection, module) ==
    IF ~IsDict(result) THEN Raise("AttributeError")
    ELSE IF status = "auth_required"
    THEN AuthRequired(result, registry, conn_config, connection, module)
    ELSE IF status = "auth_in_progress"
    THEN Return(Text("text", "Auth in progress by another caller. Retry in a few seconds.",
                     <<>>))
    ELSE IF status = "error"
    THEN Return(Text("text", "Error: {}", <<Get(result, "error", <<"Unknown error">>)>>))
    ELSE IF status = "success"
    THEN Success(Get(result, "output", <<>>), Get(result, "authenticated_as", <<>>),
                 registry, conn_config)
    ELSE Return([key |-> "text", fmt |-> "json.dumps(result)", arg |-> <<>>,
                 raw |-> result])

WithConfig(result, registry, connection, module) ==
    Dispatch(result, Get(result, "status", "None"), registry,
             ConnConfig(registry, connection), connection, module)

RunDispatch(result, f, connection, module) ==
    WithConfig(result, load_registry(f), connection, module)

\* RunWith without the validation of lines 213-214
RunWithUnvalidated(connection, module, command, f, nets) ==
    IF ~Truthy(connection) /\ module = "" /\ command = ""
    THEN RunDiscovery(f, nets)
    ELSE Called(RunDispatch(call_pool(nets[1]), f, connection, module), f,
                <<PoolCall("mm", "/run", "POST",
                           [connection |-> connection, module |-> module,
                            command |-> command, caller_id |-> "mm-mcp"])>>)

\* RunWith sending the command a second time after the answer
RunWithRetry(connection, module, command, f, nets) ==
    IF ~Truthy(connection) /\ module = "" /\ command = ""
    THEN RunDiscovery(f, nets)
    ELSE IF ~(Truthy(connection) /\ module # "" /\ command # "")
    THEN Done(Return(Text("text",
             "Error: connection, module, and command are all required", <<>>)), f, FALSE)
    ELSE Called(RunDispatch(call_pool(nets[1]), f, connection, module), f,
                <<PoolCall("mm", "/run", "POST",
                           [connection |-> connection, module |-> module,
                            command |-> command, caller_id |-> "mm-mcp"]),
                  PoolCall("mm", "/run", "POST",
                           [connection |-> connection, module |-> module,
                            command |-> command, caller_id |-> "mm-mcp"])>>)

\* lines 190-222
RunWith(connection, module, command, f, nets) ==
    IF ~Truthy(connection) /\ module = "" /\ command = ""
    THEN RunDiscovery(f, nets)
    ELSE IF ~(Truthy(connection) /\ module # "" /\ command # "")
    THEN Done(Return(Text("text",
             "Error: connection, module, and command are all required", <<>>)), f, FALSE)
    ELSE Called(RunDispatch(call_pool(nets[1]), f, connection, module), f,
                <<PoolCall("mm", "/run", "POST",
                           [connection |-> connection, module |-> module,
                            command |-> command, caller_id |-> "mm-mcp"])>>)

\* run: args.get("connection"), args.get("module"), args.get("command")
RunTool(args, f, nets) ==
    RunWith(Get(args, "connection", <<>>), Get(args, "module", ""),
            Get(args, "command", ""), f, nets)

_call_tool_impl(name, args, f, io, nets) ==
    CASE name = "connection_add"    -> _connection_add(args, f, io)
      [] name = "connection_remove" -> _connection_remove(args, f, io)
      [] name = "connection_update" -> _connection_update(args, f, io)
      [] name = "run"               -> RunTool(args, f, nets)
      [] OTHER -> Done(Return(Text("text", "Unknown tool: {}", <<<<name>>>>)), f, FALSE)

NoneStr == <<"None">>

\* what log_tool_call is called with (the summaries and the duration are
\* left out; raised says whether the except branch set error_msg)
LogRecord(mcp, tool, conn, raised) ==
    [mcp_name |-> mcp, tool_name |-> tool, connection_name |-> conn, raised |-> raised]

\* Logged with log_tool_call at the end of the try block instead of in finally
LoggedInTry(r, mcp, name, connection_name, logRaises) ==
    [impl |-> r.out,
     out |-> IF logRaises /\ r.out.kind = "return" THEN Raise("LogError") ELSE r.out,
     file |-> r.file, saved |-> r.saved, calls |-> r.calls,
     logs |-> IF r.out.kind = "return"
              THEN <<LogRecord(mcp, name, connection_name, FALSE)>> ELSE <<>>]

\* lines 154-176: try / except: raise / finally: log_tool_call(...), around
\* the outcome r of _call_tool_impl.  An exception raised inside the finally
\* block replaces the pending return value or exception.
\* [impl, out, file, saved, calls, logs]
Logged(r, mcp, name, connection_name, logRaises) ==
    [impl |-> r.out,
     out |-> IF logRaises THEN Raise("LogError") ELSE r.out,
     file |-> r.file, saved |-> r.saved, calls |-> r.calls,
     logs |-> <<LogRecord(mcp, name, connection_name, r.out.kind = "raise")>>]

call_tool(name, args, f, io, nets, logRaises) ==
    Logged(_call_tool_impl(name, args, f, io, nets), "mm", name,
           IF ~Falsy(args, "connection") THEN args["connection"]
           ELSE Get(args, "name", NoneStr),
           logRaises)

----------------------------------------------------------------------------
(* pwsh-manager *)

MCP_NAME == "pwsh-manager"

\* MCP_NAME in conn.get("mcps", [])
InMcps(conn, id) ==
    LET mcps == Get(conn, "mcps", <<>>) IN \E i \in DOMAIN mcps : mcps[i] = id

\* get_connection, given what load_connections returned: [found, conn]
Resolve(connections, name) ==
    IF HasName(connections, name) /\ InMcps(Lookup(connections, name), MCP_NAME)
    THEN [found |-> TRUE, conn |-> Lookup(connections, name)]
    ELSE [found |-> FALSE, conn |-> <<>>]

get_connection(f, name) == Resolve(load_connections(f), name)

\* lines 64 and 252: the connections whose mcps names this adapter
Available(connections) == SelectSeq(connections, LAMBDA e : InMcps(e.conn, MCP_NAME))

list_available_connections(f) == NameList(Available(load_connections(f)))

\* tenant_domain.split(".")[0]
RECURSIVE FirstLabel(_)
FirstLabel(s) ==
    IF s = <<>> \/ Head(s) = "." THEN <<>> ELSE <<Head(s)>> \o FirstLabel(Tail(s))

ForitIo == <<"f", "o", "r", "i", "t", ".", "i", "o">>
ForitLlc == <<"f", "o", "r", "i", "t", "l", "l", "c">>

\* SHAREPOINT_TENANTS.get(tenant_domain, tenant_domain.split(".")[0])
get_sharepoint_tenant(tenant_domain) ==
    IF tenant_domain = ForitIo THEN ForitLlc ELSE FirstLabel(tenant_domain)

api_call(net) ==
    CASE net.kind = "json"    -> net.body
      [] net.kind = "timeout" -> [success |-> FALSE, error |-> <<"str(e)">>]
      [] net.kind = "fail"    ->
            [success |-> FALSE,
             error |-> <<"Cannot connect to pwsh-manager. Is Docker running?">>]

\* a result dict: content[0].text and isError
PText(key, fmt, arg, isError) == [key |-> key, fmt |-> fmt, arg |-> arg, isError |-> isError]

\* build_request(extra)
build_request(tenant, module, extra) ==
    LET base == [tenant |-> tenant, module |-> <<module>>]
        sp == IF module = "pnp"
              THEN [sharepoint_tenant |-> get_sharepoint_tenant(tenant)] ELSE <<>>
    IN  [k \in DOMAIN base \cup DOMAIN sp \cup DOMAIN extra |->
            IF k \in DOMAIN extra THEN extra[k]
            ELSE IF k \in DOMAIN sp THEN sp[k] ELSE base[k]]

\* truthiness of result.get(k) for a flag of the pool's answer
Flag(result, k) == Get(result, k, FALSE) = TRUE

\* lines 250-267
PList(available) ==
    IF available = <<>>
    THEN PText("error", "No connections configured for pwsh-manager MCP", <<>>, FALSE)
    ELSE [key |-> "text", fmt |-> "json.dumps(results)", arg |-> NameList(available),
          isError |-> FALSE,
          items |-> [i \in DOMAIN available |->
                        [name |-> available[i].name,
                         tenant |-> Get(available[i].conn, "tenant", <<>>),
                         description |-> Get(available[i].conn, "description", <<>>)]]]

\* lines 269-280
PSessions(result, sessions, call) ==
    IF ~IsDict(result) THEN [out |-> Raise("AttributeError"), calls |-> <<call>>]
    ELSE IF sessions = <<>>
    THEN [out |-> Return(PText("text", "No active sessions", <<>>, FALSE)),
          calls |-> <<call>>]
    ELSE IF \E i \in DOMAIN sessions :
               \/ "connected" \notin DOMAIN sessions[i]
               \/ (~sessions[i].connected /\ "auth_pending" \notin DOMAIN sessions[i])
               \/ {"tenant", "module", "last_used"} \ DOMAIN sessions[i] # {}
    THEN [out |-> Raise("KeyError"), calls |-> <<call>>]
    ELSE [out |-> Return([key |-> "text", fmt |-> "Sessions:", arg |-> <<>>,
                          isError |-> FALSE, items |-> sessions]),
          calls |-> <<call>>]

\* result.get('error', result.get('result', dflt))
Failure(result, dflt) ==
    IF "error" \in DOMAIN result THEN result["error"] ELSE Get(result, "result", <<dflt>>)

\* lines 313-329
PLogin(result, who) ==
    IF ~IsDict(result) THEN Raise("AttributeError")
    ELSE IF Truthy(Get(result, "device_code", <<>>))
    THEN Return(PText("text",
                      IF Flag(result, "auth_pending")
                      THEN "DEVICE CODE, Authentication pending" ELSE "DEVICE CODE, Connected",
                      <<result["device_code"],
                        Get(result, "auth_url", <<"https://microsoft.com/devicelogin">>)>>
                      \o who, FALSE))
    ELSE IF Flag(result, "success")
    THEN Return(PText("text", "Connected to {} ({}) - {}", who, FALSE))
    ELSE Return(PText("text", "Login failed: {}", <<Failure(result, "Unknown error")>>, TRUE))

\* lines 331-341
PStatus(result, who) ==
    IF ~IsDict(result) THEN Raise("AttributeError")
    ELSE IF Flag(result, "connected")
    THEN Return(PText("text", "{} ({}) - {}: Connected", who, FALSE))
    ELSE IF Flag(result, "auth_pending")
    THEN Return(PText("text", "{} ({}) - {}: Authentication pending", who, FALSE))
    ELSE Return(PText("text", "{} ({}) - {}: Not connected", who, FALSE))

\* lines 348-352
PRun(result) ==
    IF ~IsDict(result) THEN Raise("AttributeError")
    ELSE IF Flag(result, "success")
    THEN Return(PText("text", "{}", <<Get(result, "result", <<"OK">>)>>, FALSE))
    ELSE Return(PText("text", "Error: {}", <<Failure(result, "Command failed")>>, TRUE))

\* lines 363-367
PDisconnect(result, who) ==
    IF ~IsDict(result) THEN Raise("AttributeError")
    ELSE IF Flag(result, "success")
    THEN Return(PText("text", "Disconnected {} ({}) - {}", who, FALSE))
    ELSE Return(PText("text", "Error: {}",
                      <<Get(result, "error", <<"Disconnect failed">>)>>, TRUE))

PRequest(endpoint, tenant, module, extra) ==
    PoolCall(MCP_NAME, endpoint, "POST", build_request(tenant, module, extra))

\* Confirmed with the comparison made after confirmation.upper()
ConfirmedAnyCase(confirmation) == confirmation \in {"DISCONNECT", "disconnect"}

\* line 356: confirmation != "DISCONNECT", negated
Confirmed(confirmation) == confirmation = "DISCONNECT"

\* lines 302-369: the tools that come after the connection was resolved
PNamed(name, args, who, module, tenant, result) ==
    CASE name = "pwsh_login" ->
           [calls |-> <<PRequest("/login", tenant, module,
                                 [account |-> <<Get(args, "account", "1")>>])>>,
            out |-> PLogin(result, who)]
      [] name = "pwsh_status" ->
           [calls |-> <<PRequest("/status", tenant, module, <<>>)>>,
            out |-> PStatus(result, who)]
      [] name = "pwsh_run" ->
           IF Get(args, "command", "") = ""
           THEN [calls |-> <<>>,
                 out |-> Return(PText("text", "Error: command is required", <<>>, TRUE))]
           ELSE [calls |-> <<PRequest("/run", tenant, module,
                                      [command |-> <<args["command"]>>])>>,
                 out |-> PRun(result)]
      [] name = "pwsh_disconnect" ->
           IF ~Confirmed(Get(args, "confirmation", ""))
           THEN [calls |-> <<>>,
                 out |-> Return(PText("error",
                           "Disconnect requires explicit user confirmation", <<>>, TRUE))]
           ELSE [calls |-> <<PRequest("/disconnect", tenant, module, <<>>)>>,
                 out |-> PDisconnect(result, who)]
      [] OTHER ->
           [calls |-> <<>>,
            out |-> Return(PText("text", "Unknown tool: {}", <<<<name>>>>, TRUE))]

\* lines 283-302
PResolved(name, args, conn_name, module, got, available, result) ==
    IF ~Truthy(conn_name)
    THEN [out |-> Return([key |-> "error", fmt |-> "connectionName is REQUIRED",
                          arg |-> <<>>, isError |-> TRUE, available |-> available]),
          calls |-> <<>>]
    ELSE IF ~got.found
    THEN [out |-> Return([key |-> "error",
                          fmt |-> "Connection '{}' not found or not configured for pwsh-manager MCP",
                          arg |-> <<conn_name>>, isError |-> TRUE,
                          available |-> available]),
          calls |-> <<>>]
    ELSE PNamed(name, args,
                <<conn_name, Get(got.conn, "tenant", <<>>), <<module>>>>,
                module, Get(got.conn, "tenant", <<>>), result)

\* lines 247-369, given what load_connections and api_call return: [out, calls]
PImpl(name, args, connections, result) ==
    IF name = "pwsh_list_connections"
    THEN [out |-> Return(PList(Available(connections))), calls |-> <<>>]
    ELSE IF name = "pwsh_sessions"
    THEN PSessions(result, Get(result, "sessions", <<>>),
                   PoolCall(MCP_NAME, "/sessions", "GET", NoBody))
    ELSE PResolved(name, args, Get(args, "connectionName", <<>>),
                   Get(args, "module", "exo"),
                   Resolve(connections, Get(args, "connectionName", <<>>)),
                   NameList(Available(connections)), result)

_handle_call_tool_impl(name, args, f, net) ==
    PImpl(name, args, load_connections(f), api_call(net))

\* lines 221-244: try / except: raise / finally: log_tool_call(...)
\* [impl, out, calls, logs]
PLogged(r, name, conn_name, logRaises) ==
    [impl |-> r.out,
     out |-> IF logRaises THEN Raise("LogError") ELSE r.out,
     calls |-> r.calls,
     logs |-> <<LogRecord(MCP_NAME, name,
                          IF Truthy(conn_name) THEN conn_name ELSE NoneStr,
                          r.out.kind = "raise")>>]

handle_call_tool(name, args, f, net, logRaises) ==
    PLogged(_handle_call_tool_impl(name, args, f, net), name,
            Get(args, "connectionName", <<>>), logRaises)

----------------------------------------------------------------------------
(* Inputs *)

MaxConns == 2

NameA == <<"a">>
NameB == <<"b">>
Tenant1 == <<"t", ".", "c">>
Desc1 == <<"d">>
Guid1 ==
    Rep("a", 8) \o <<"-">> \o Rep("1", 4) \o <<"-">> \o Rep("F", 4) \o <<"-">>
    \o Rep("0", 4) \o <<"-">> \o Rep("9", 12)
NotAGuid == <<"n", "o", "t", "-", "a", "-", "g", "u", "i", "d">>
Email1 == <<"A", "@", "b">>

\* every dict that gives each key k one of the values vals[k], or leaves it out
RECURSIVE DictsOver(_, _)
DictsOver(vals, ks) ==
    IF ks = {} THEN {<<>>}
    ELSE LET k == CHOOSE x \in ks : TRUE
             rest == DictsOver(vals, ks \ {k})
         IN  rest \cup {[j \in DOMAIN d \cup {k} |-> IF j = k THEN v ELSE d[j]] :
                           d \in rest, v \in vals[k]}

ArgDicts(vals) == DictsOver(vals, DOMAIN vals)

NameArgs == {<<>>, <<" ">>, NameA, <<" ", "a", " ">>, NameB}
McpsArgs == {<<>>, <<"mm">>, <<MCP_NAME>>}

AddArgs ==
    ArgDicts([name |-> NameArgs,
              tenant |-> {Tenant1, <<" ">> \o Tenant1},
              appId |-> {Guid1, <<" ">> \o Guid1 \o <<"\n">>, NotAGuid},
              description |-> {Desc1, Desc1 \o <<" ">>},
              mcps |-> McpsArgs])

RemoveArgs == ArgDicts([name |-> NameArgs])

UpdateArgs ==
    ArgDicts([name |-> {NameA, <<" ">> \o NameB},
              appId |-> {NotAGuid, <<" ">> \o Guid1, Guid1 \o <<"\n">>},
              tenant |-> {<<" ">> \o Tenant1, <<>>},
              mcps |-> {<<"mm">>, <<MCP_NAME>>}])

RunArgs ==
    ArgDicts([connection |-> {<<>>, NameA, NameB},
              module |-> {"", "exo"},
              command |-> {"", "Get-Mailbox"}])

IoOutcomes == {"ok", "open_fails", "write_fails"}

RunBodies ==
    {[status |-> "success", output |-> <<ESC, "[", "3", "2", "m", "O", "K", ESC, "[", "0", "m">>],
     [status |-> "success", output |-> <<" ">>, authenticated_as |-> <<"x", "@", "y">>],
     [status |-> "success", output |-> <<" ", "O", "K", ESC, "[", "?", "2", "5", "h", "\n">>,
      authenticated_as |-> <<"x", "@", "y">>],
     [status |-> "success", output |-> <<"O", "K">>, authenticated_as |-> <<"a", "@", "B">>],
     [status |-> "success", output |-> <<"O", "K", ESC, "[", "?", "1", "h">>],
     [status |-> "error", error |-> <<"boom">>],
     [status |-> "auth_required", device_code |-> <<"ABC-123">>],
     [status |-> "auth_in_progress"],
     [status |-> "queued"],
     [connections |-> <<[name |-> NameA, conn |-> [tenant |-> Tenant1]]>>],
     NonDict}

MmNets == {NetJson(b) : b \in RunBodies} \cup {NetTimeout, NetFail}

PwshToolArgs ==
    [pwsh_list_connections |-> {<<>>},
     pwsh_sessions |-> {<<>>},
     pwsh_login |-> ArgDicts([connectionName |-> {<<>>, NameA, NameB},
                              module |-> {"pnp"}, account |-> {"2"}]),
     pwsh_status |-> ArgDicts([connectionName |-> {<<>>, NameA, NameB}, module |-> {"pnp"}]),
     pwsh_run |-> ArgDicts([connectionName |-> {<<>>, NameA, NameB},
                            module |-> {"pnp"}, command |-> {"", "Get-Mailbox"}]),
     pwsh_disconnect |-> ArgDicts([connectionName |-> {<<>>, NameA, NameB},
                                   module |-> {"pnp"},
                                   confirmation |-> {"", "disconnect", "DISCONNECT"}]),
     pwsh_unknown |-> ArgDicts([connectionName |-> {NameA}])]

PwshBodies ==
    {[success |-> TRUE],
     [success |-> TRUE, result |-> <<"out">>],
     [success |-> FALSE, error |-> <<"boom">>],
     [device_code |-> <<"ABC-123">>, auth_pending |-> TRUE],
     [connected |-> TRUE],
     [auth_pending |-> TRUE],
     [sessions |-> <<[connected |-> FALSE, auth_pending |-> TRUE, tenant |-> Tenant1,
                      module |-> "exo", last_used |-> "now"]>>],
     [sessions |-> <<[connected |-> FALSE]>>],
     NonDict}

PwshNets == {NetJson(b) : b \in PwshBodies} \cup {NetTimeout, NetFail}

\* a registry written by hand: an expectedEmail and an unknown top-level key
SeedRegistry ==
    [version |-> "1",
     connections |->
        <<[name |-> NameA,
           conn |-> [appId |-> Guid1, tenant |-> ForitIo, description |-> Desc1,
                     mcps |-> <<"mm", MCP_NAME>>, expectedEmail |-> Email1]]>>]

InitFiles ==
    {NoFile,
     FileOf(SeedRegistry),
     [exists |-> TRUE, data |-> <<TOpen, TConnsOpen>>],
     [exists |-> TRUE, data |-> <<TValue, TNewline>>]}

----------------------------------------------------------------------------
(* The gateway, one invocation at a time *)

NoProc == "none"
Procs == {"p1", "p2"}

NoCall ==
    [adapter |-> "none", tool |-> "none", args |-> <<>>, before |-> NoFile,
     io |-> "ok", nets |-> <<>>,
     impl |-> Return(NoResult), out |-> Return(NoResult), saved |-> FALSE,
     calls |-> <<>>, logs |-> <<>>, logRaises |-> FALSE]

\* request_id before its first assignment
Unbound == [kind |-> "unbound"]

\* main has not read anything yet; request_id is not assigned
LoopInit ==
    /\ stdin = <<>>
    /\ request_id = Unbound
    /\ stdout = <<>>
    /\ mpc = "running"

ProcInit ==
    /\ LoopInit
    /\ pc = [p \in Procs |-> "idle"]
    /\ wname = [p \in Procs |-> <<>>]
    /\ reg = [p \in Procs |-> EmptyRegistry]
    /\ wpos = [p \in Procs |-> 0]
    /\ wbuf = [p \in Procs |-> <<>>]
    /\ lock = NoProc
    /\ res = [p \in Procs |-> NoResult]
    /\ seen = [by |-> "none", val |-> EmptyRegistry]

Init ==
    /\ file \in InitFiles
    /\ last = NoCall
    /\ ProcInit

\* the registry has room for what the call may add
Room(f) == Len(load_connections(f)) < MaxConns

Idle == last = NoCall

Invoked(r, adapter, tool, args, io, nets, logRaises) ==
    /\ file' = r.file
    /\ last' = [adapter |-> adapter, tool |-> tool, args |-> args, before |-> file,
                io |-> io, nets |-> nets,
                impl |-> r.impl, out |-> r.out, saved |-> r.saved,
                calls |-> r.calls, logs |-> r.logs, logRaises |-> logRaises]
    /\ UNCHANGED procVars
    /\ UNCHANGED loopVars

MmInvoke(tool, args, io, nets, logRaises) ==
    Invoked(call_tool(tool, args, file, io, nets, logRaises), "mm", tool, args, io, nets,
            logRaises)

MmAdd ==
    /\ Idle
    /\ Room(file)
    /\ \E args \in AddArgs, io \in IoOutcomes, logRaises \in BOOLEAN :
          MmInvoke("connection_add", args, io, <<>>, logRaises)

MmRemove ==
    /\ Idle
    /\ \E args \in RemoveArgs, io \in IoOutcomes, logRaises \in BOOLEAN :
          MmInvoke("connection_remove", args, io, <<>>, logRaises)

MmUpdate ==
    /\ Idle
    /\ \E args \in UpdateArgs, io \in IoOutcomes, logRaises \in BOOLEAN :
          MmInvoke("connection_update", args, io, <<>>, logRaises)

DiscoveryNets == {NetJson([uptime_human |-> "1h"]), NetJson(NonDict)}

MmRun ==
    /\ Idle
    /\ \E args \in RunArgs, n1 \in MmNets, n2 \in DiscoveryNets, logRaises \in BOOLEAN :
          MmInvoke("run", args, "ok", <<n1, n2>>, logRaises)

MmUnknown ==
    /\ Idle
    /\ \E logRaises \in BOOLEAN : MmInvoke("list", <<>>, "ok", <<>>, logRaises)

\* handle_call_tool never writes the registry file
PwshResult(r, f) ==
    [impl |-> r.impl, out |-> r.out, file |-> f, saved |-> FALSE,
     calls |-> r.calls, logs |-> r.logs]

PwshInvoke ==
    /\ Idle
    /\ \E tool \in DOMAIN PwshToolArgs, net \in PwshNets, logRaises \in BOOLEAN :
          \E args \in PwshToolArgs[tool] :
             Invoked(PwshResult(handle_call_tool(tool, args, file, net, logRaises), file),
                     MCP_NAME, tool, args, "ok", <<net>>, logRaises)

\* the adapter has answered and waits for the next request (one tool call
\* at a time per process)
NextRequest ==
    /\ last # NoCall
    /\ last' = NoCall
    /\ UNCHANGED <<file>>
    /\ UNCHANGED procVars
    /\ UNCHANGED loopVars

Next == MmAdd \/ MmRemove \/ MmUpdate \/ MmRun \/ MmUnknown \/ PwshInvoke \/ NextRequest

Spec == Init /\ [][Next]_vars

----------------------------------------------------------------------------
(* Writers in separate processes: connection_add and save_registry, one    *)
(* system call at a time, next to readers that take no lock                *)

NameC == <<"c">>
NameD == <<"d">>

WriterNames == {NameA, NameB}

\* what each writer adds under its name
WriterConn == NewConn(Guid1, Tenant1, Desc1, <<"mm">>)

\* the registry before any writer starts
ConcRegistry ==
    [connections |-> <<[name |-> NameC, conn |-> WriterConn],
                       [name |-> NameD, conn |-> WriterConn]>>]

InitConc ==
    /\ file = FileOf(ConcRegistry)
    /\ last = NoCall
    /\ ProcInit

\* the data save_registry is called with (line 286-287)
SaveData(registry, name) == WithConn(registry, name, WriterConn)

\* the tokens m..n of s that exist
Slice(s, m, n) ==
    IF m > n \/ m > Len(s) THEN <<>>
    ELSE [i \in 1..((IF n > Len(s) THEN Len(s) ELSE n) - m + 1) |-> s[i + m - 1]]

\* write(2) of toks at offset pos: a gap before pos reads as NUL bytes
WriteAt(data, pos, toks) ==
    Slice(data, 1, pos)
    \o (IF Len(data) < pos THEN Rep(TNul, pos - Len(data)) ELSE <<>>)
    \o toks
    \o Slice(data, pos + Len(toks) + 1, Len(data))

\* lines 276-284 with valid arguments: load_registry(), then the name check
WLoaded(p, name, registry) ==
    /\ wname' = [wname EXCEPT ![p] = name]
    /\ reg' = [reg EXCEPT ![p] = registry]
    /\ IF HasName(Conns(registry), name)
       THEN /\ pc' = [pc EXCEPT ![p] = "done"]
            /\ res' = [res EXCEPT ![p] =
                          Text("error", "'{}' already exists. Use connection_update.",
                               <<name>>)]
       ELSE /\ pc' = [pc EXCEPT ![p] = "open"]
            /\ UNCHANGED res
    /\ UNCHANGED <<file, last, wpos, wbuf, lock, seen>>
    /\ UNCHANGED loopVars

WLoad(p) ==
    /\ pc[p] = "idle"
    /\ \E name \in WriterNames : WLoaded(p, name, load_registry(file))

\* line 45: open(CONNECTIONS_FILE, 'w') truncates the file
WOpen(p) ==
    /\ pc[p] = "open"
    /\ file' = [exists |-> TRUE, data |-> <<>>]
    /\ wpos' = [wpos EXCEPT ![p] = 0]
    /\ pc' = [pc EXCEPT ![p] = "lock"]
    /\ UNCHANGED <<last, wname, reg, wbuf, lock, res, seen>>
    /\ UNCHANGED loopVars

\* lines 46-49: flock(LOCK_EX) returns once no other process holds the
\* lock; json.dump and f.write then fill the buffer of f
WLock(p) ==
    /\ pc[p] = "lock"
    /\ lock = NoProc
    /\ lock' = p
    /\ wbuf' = [wbuf EXCEPT ![p] = Serialize(SaveData(reg[p], wname[p]))]
    /\ pc' = [pc EXCEPT ![p] = "locked"]
    /\ UNCHANGED <<file, last, wname, reg, wpos, res, seen>>
    /\ UNCHANGED loopVars

\* the first k tokens of the buffer of f go to the file
Flushed(p, k) ==
    /\ file' = [exists |-> TRUE, data |-> WriteAt(file.data, wpos[p], Slice(wbuf[p], 1, k))]
    /\ wpos' = [wpos EXCEPT ![p] = wpos[p] + k]
    /\ wbuf' = [wbuf EXCEPT ![p] = Slice(wbuf[p], k + 1, Len(wbuf[p]))]

\* lines 48-49: a buffer that fills up during json.dump is flushed while
\* the lock is held
WFlush(p) ==
    /\ pc[p] = "locked"
    /\ \E k \in 1..Len(wbuf[p]) : Flushed(p, k)
    /\ UNCHANGED <<last, pc, wname, reg, lock, res, seen>>
    /\ UNCHANGED loopVars

\* line 51: flock(LOCK_UN), in the finally block
WUnlock(p) ==
    /\ pc[p] = "locked"
    /\ lock' = NoProc
    /\ pc' = [pc EXCEPT ![p] = "unlocked"]
    /\ UNCHANGED <<file, last, wname, reg, wpos, wbuf, res, seen>>
    /\ UNCHANGED loopVars

\* lines 45-52 and 287-288: leaving the with block closes f, which flushes
\* what is left in its buffer; save_registry returns True
WClose(p) ==
    /\ pc[p] = "unlocked"
    /\ Flushed(p, Len(wbuf[p]))
    /\ pc' = [pc EXCEPT ![p] = "done"]
    /\ res' = [res EXCEPT ![p] = AddSaved([ok |-> TRUE, file |-> file'], wname[p]).out.val]
    /\ UNCHANGED <<last, wname, reg, lock, seen>>
    /\ UNCHANGED loopVars

\* lines 53-54 and 287-289: save_registry caught an exception and returns
\* False; connection_add reports it
WFailed(p) ==
    /\ pc' = [pc EXCEPT ![p] = "failed"]
    /\ res' = [res EXCEPT ![p] = AddSaved([ok |-> FALSE, file |-> file], wname[p]).out.val]
    /\ UNCHANGED <<last, wname, reg, seen>>
    /\ UNCHANGED loopVars

\* line 45: open raises (no permission, no directory); the file is untouched
WOpenFails(p) ==
    /\ pc[p] = "open"
    /\ WFailed(p)
    /\ UNCHANGED <<file, wpos, wbuf, lock>>

\* line 46: flock(LOCK_EX) raises; the with block closes the truncated,
\* still empty file
WLockFails(p) ==
    /\ pc[p] = "lock"
    /\ WFailed(p)
    /\ UNCHANGED <<file, wpos, wbuf, lock>>

\* lines 48-51: json.dump or f.write raises (disk full); the finally block
\* unlocks, the with block closes f, and what was still buffered is lost
WWriteFails(p) ==
    /\ pc[p] = "locked"
    /\ lock' = NoProc
    /\ wbuf' = [wbuf EXCEPT ![p] = <<>>]
    /\ WFailed(p)
    /\ UNCHANGED <<file, wpos>>

\* a reader in another process: load_registry, at any moment
ReadRegistry ==
    /\ seen' = [by |-> "load_registry", val |-> load_registry(file)]
    /\ UNCHANGED <<file, last, pc, wname, reg, wpos, wbuf, lock, res>>
    /\ UNCHANGED loopVars

\* a reader in another process: load_connections, at any moment
ReadConnections ==
    /\ seen' = [by |-> "load_connections", val |-> [connections |-> load_connections(file)]]
    /\ UNCHANGED <<file, last, pc, wname, reg, wpos, wbuf, lock, res>>
    /\ UNCHANGED loopVars

NextConc ==
    \/ \E p \in Procs : WLoad(p) \/ WOpen(p) \/ WLock(p) \/ WFlush(p) \/ WUnlock(p) \/ WClose(p)
    \/ \E p \in Procs : WOpenFails(p) \/ WLockFails(p) \/ WWriteFails(p)
    \/ ReadRegistry
    \/ ReadConnections

SpecConc == InitConc /\ [][NextConc]_vars

----------------------------------------------------------------------------
(* Properties of concurrent saves and reads, under SpecConc *)

\* no writer is between its load and the close of its file
Quiet == \A p \in Procs : pc[p] \in {"idle", "done", "failed"}

\* p's connection_add reported success
Saved(p) == pc[p] = "done" /\ res[p].key = "success"

\* p has called save_registry
SaveBegun(p) == pc[p] \in {"lock", "locked", "unlocked"} \/ Saved(p)

\* a step that changes the file while some process holds the lock is a
\* step of the lock holder
OnlyHolderChangesFile ==
    (lock # NoProc /\ file' # file)
        => (pc'[lock] # pc[lock] \/ wpos'[lock] # wpos[lock])

\* with no save in progress, the file is the document of one of the saves
QuietFileIsOneSave ==
    (Quiet /\ \E p \in Procs : Saved(p))
        => \E p \in Procs :
              Saved(p) /\ file.data = Serialize(SaveData(reg[p], wname[p]))

\* C1: concurrent save_registry calls are mutually exclusive for the
\* duration of the write: no process changes the file's contents
\* (truncation included) while another process holds the exclusive lock,
\* so whenever no save is in progress the file holds the complete
\* serialized document of exactly one of the saves.
C1_SavesMutuallyExclusive == [][OnlyHolderChangesFile /\ QuietFileIsOneSave']_vars

\* C2: a load_registry / load_connections that runs while other processes
\* call save_registry returns the registry as it was before those saves or
\* the registry one of them wrote, never a registry that no save wrote.
C2_ReadsSeeCommitted ==
    seen.by # "none"
        => \/ seen.val = ConcRegistry
           \/ \E p \in Procs : SaveBegun(p) /\ seen.val = SaveData(reg[p], wname[p])

\* p and q loaded the same registry, added different names, and both
\* reported success
BothAdded(p, q) ==
    /\ p # q
    /\ Saved(p) /\ Saved(q)
    /\ wname[p] # wname[q]
    /\ reg[p] = reg[q]

\* the names in the registry file
FileNames == Names(Conns(load_registry(file)))

\* C3: the registry has a read-modify-write race.  Whenever two processes
\* loaded the same registry, ran connection_add for different new names
\* and both reported success, the final registry never holds both
\* connections: it holds what was loaded plus the connection of one
\* process only, or nothing readable.
C3_UpdateLost ==
    \A p, q \in Procs :
        (Quiet /\ BothAdded(p, q))
            => /\ ~({wname[p], wname[q]} \subseteq FileNames)
               /\ FileNames \in {{},
                                 Names(Conns(reg[p])) \cup {wname[p]},
                                 Names(Conns(reg[q])) \cup {wname[q]}}

\* C3, its case: both adds reported success and the registry is the
\* document of one of them, without the other's connection.
C3_Witness ==
    \E p, q \in Procs :
        /\ Quiet /\ BothAdded(p, q)
        /\ file.data = Serialize(SaveData(reg[q], wname[q]))
        /\ wname[q] \in FileNames
        /\ wname[p] \notin FileNames

----------------------------------------------------------------------------
(* Properties of single invocations, under Spec *)

\* the connection name the last invocation addresses
Addressed ==
    IF last.adapter = "mm" THEN Get(last.args, "connection", <<>>)
    ELSE Get(last.args, "connectionName", <<>>)

\* name is in the registry of f and its mcps list contains id
Authorizes(f, name, id) ==
    /\ HasName(load_connections(f), name)
    /\ InMcps(Lookup(load_connections(f), name), id)

\* the pool endpoints that act on one connection
ConnectionEndpoints == {"/run", "/login", "/status", "/disconnect"}

\* C4: every gateway operation that addresses a named connection resolves
\* and authorizes it against the registry before contacting the pool: no
\* pool call for a connection is issued unless the name is in the registry
\* and its mcps list contains the issuing adapter's id.
C4_PoolCallsAuthorized ==
    \A i \in DOMAIN last.calls :
        last.calls[i].endpoint \in ConnectionEndpoints
            => Authorizes(last.before, Addressed, last.adapter)

\* connection records that do not authorize the adapter id
HiddenConns(id) ==
    {[appId |-> Guid1, tenant |-> Tenant1, description |-> Desc1,
      mcps |-> IF id = "mm" THEN <<MCP_NAME>> ELSE <<"mm">>,
      expectedEmail |-> Email1]}

\* the registries that differ from registry in one connection that does
\* not authorize id
VariantsOf(registry, id) ==
    LET cs == Conns(registry)
        hidden == {n \in Names(cs) : ~InMcps(Lookup(cs, n), id)}
        free == {n \in {NameA, NameB} : n \notin Names(cs) \/ n \in hidden}
    IN  {WithoutConn(registry, n) : n \in hidden}
        \cup {WithConn(registry, n, c) : n \in free, c \in HiddenConns(id)}

\* the registry files that differ from f only in connections that do not
\* authorize id
Variants(f, id) ==
    IF f.exists /\ Parse(f.data).ok /\ IsDict(Parse(f.data).val)
    THEN {FileOf(r) : r \in VariantsOf(Parse(f.data).val, id)}
    ELSE {}

\* the outcome of the last invocation's operation on the registry file f
Rerun(f) ==
    IF last.adapter = "mm"
    THEN _call_tool_impl(last.tool, last.args, f, last.io, last.nets).out
    ELSE _handle_call_tool_impl(last.tool, last.args, f, last.nets[1]).out

\* C5: for an adapter X and two registries that differ only in
\* connections whose mcps does not contain X, every resolve/list/use
\* operation of X returns the same result.
C5_HiddenConnectionsInvisible ==
    (last.adapter = MCP_NAME \/ (last.adapter = "mm" /\ last.tool = "run"))
        => \A f \in Variants(last.before, last.adapter) : Rerun(f) = last.impl

\* a disconnect whose confirmation is not exactly DISCONNECT
DisconnectUnconfirmed ==
    /\ last.tool = "pwsh_disconnect"
    /\ Get(last.args, "confirmation", "") # "DISCONNECT"

ConfirmationRequired ==
    Return(PText("error", "Disconnect requires explicit user confirmation", <<>>, TRUE))

\* C6 as first stated: a disconnect whose confirmation is not exactly
\* DISCONNECT never calls the pool and returns a confirmation-required
\* error, for every connectionName and module.
C6_AlwaysConfirmationRequired ==
    DisconnectUnconfirmed => (last.calls = <<>> /\ last.impl = ConfirmationRequired)

\* C6: a disconnect whose confirmation is not exactly DISCONNECT never
\* calls the pool and returns an error; the error is the
\* confirmation-required one exactly when connectionName is non-empty and
\* names a connection that authorizes pwsh-manager.
C6_UnconfirmedNeverCallsPool ==
    DisconnectUnconfirmed
        => /\ last.calls = <<>>
           /\ last.impl.kind = "return"
           /\ last.impl.val.isError
           /\ (last.impl = ConfirmationRequired
                 <=> (Truthy(Addressed) /\ Authorizes(last.before, Addressed, MCP_NAME)))

\* C6, its case: confirmation in the wrong case for a usable connection
C6_Witness ==
    /\ DisconnectUnconfirmed
    /\ Get(last.args, "confirmation", "") = "disconnect"
    /\ Authorizes(last.before, Addressed, MCP_NAME)
    /\ last.impl = ConfirmationRequired
    /\ last.calls = <<>>

C8_LogFailureHarmless == last.out = last.impl

\* the last invocation was a connection_add that reported success
AddSucceeded ==
    /\ last.tool = "connection_add"
    /\ last.impl.kind = "return"
    /\ last.impl.val.key = "success"

\* the registry file holds, under name, a connection with these fields
Stored(name, tenant, app_id, desc, mcps) ==
    LET cs == Conns(load_registry(file))
    IN  /\ HasName(cs, name)
        /\ Lookup(cs, name).tenant = tenant
        /\ Lookup(cs, name).appId = app_id
        /\ Lookup(cs, name).description = desc
        /\ Lookup(cs, name).mcps = mcps

\* C9 as first stated: after a connection_add that succeeds, a load holds
\* a connection under exactly the supplied name whose tenant, appId,
\* description and mcps equal the supplied values unchanged.
C9_RoundTripUnchanged ==
    AddSucceeded
        => Stored(last.args["name"], last.args["tenant"], last.args["appId"],
                  last.args["description"], last.args["mcps"])

\* C9: after a connection_add that succeeds, a load holds a connection
\* under the supplied name with surrounding whitespace removed, whose
\* tenant, appId and description are the supplied values with surrounding
\* whitespace removed and whose mcps is the supplied value unchanged.
C9_RoundTripStripped ==
    AddSucceeded
        => Stored(Strip(last.args["name"]), Strip(last.args["tenant"]),
                  Strip(last.args["appId"]), Strip(last.args["description"]),
                  last.args["mcps"])

\* C9, its case: a name and an appId with surrounding whitespace
C9_Witness ==
    /\ AddSucceeded
    /\ last.args["name"] = <<" ", "a", " ">>
    /\ last.args["appId"] # Strip(last.args["appId"])
    /\ HasName(Conns(load_registry(file)), NameA)

\* the last invocation was a connection_add that returned this error
AddRejected(fmt) ==
    /\ last.tool = "connection_add"
    /\ last.impl.kind = "return"
    /\ last.impl.val.key = "error"
    /\ last.impl.val.fmt = fmt

\* the required fields that the arguments leave out or leave empty
MissingFields(args) ==
    {fld \in {"name", "tenant", "appId", "description", "mcps"} :
        fld \notin DOMAIN args \/ args[fld] = <<>>}

\* xxxxxxxx-xxxx-xxxx-xxxx-xxxxxxxxxxxx in hex digits
WellFormedGuid(s) ==
    /\ Len(s) = 36
    /\ \A i \in 1..36 : IF i \in {9, 14, 19, 24} THEN s[i] = "-" ELSE s[i] \in HexDigits

\* the name is already in the registry the call found
NameTaken(f, name) ==
    IsDict(load_registry(f)) /\ HasName(Conns(load_registry(f)), name)

\* C10: a connection_add that is rejected performs no write and leaves
\* the registry unchanged, and each cause has its own error: a missing
\* required field gives the missing-fields error, otherwise an appId that
\* is no GUID gives the invalid-appId error, otherwise a name already in
\* the registry gives the already-exists error.
C10_RejectedAddWritesNothing ==
    last.tool = "connection_add"
        => LET missing == MissingFields(last.args)
               badId == ~WellFormedGuid(Strip(Get(last.args, "appId", <<>>)))
               taken == NameTaken(last.before, Strip(Get(last.args, "name", <<>>)))
           IN  /\ AddRejected("Missing: {}") <=> missing # {}
               /\ AddRejected("Invalid appId format: {}") <=> (missing = {} /\ badId)
               /\ AddRejected("'{}' already exists. Use connection_update.")
                     <=> (missing = {} /\ ~badId /\ taken)
               /\ (missing # {} \/ badId \/ taken)
                     => (file = last.before /\ ~last.saved)

\* C10, its case: the name is taken and the file is as it was
C10_Witness ==
    /\ AddRejected("'{}' already exists. Use connection_update.")
    /\ last.before.exists
    /\ file = last.before
    /\ ~last.saved

\* the name connection_remove and connection_update work with
GivenName == Strip(Get(last.args, "name", <<>>))

\* what load_registry gave the last invocation
BeforeRegistry == load_registry(last.before)

\* the entries of cs under other names than n
Others(cs, n) == SelectSeq(cs, LAMBDA e : e.name # n)

\* the last invocation was a connection_remove of a name on a registry
RemoveCase ==
    /\ last.tool = "connection_remove"
    /\ Truthy(GivenName)
    /\ IsDict(BeforeRegistry)

C11_NotFoundWitness ==
    /\ RemoveCase
    /\ Conns(BeforeRegistry) # <<>>
    /\ ~HasName(Conns(BeforeRegistry), GivenName)
    /\ last.impl.val.key = "error"

\* the fields connection_update can change, in the order it looks at them
UpdatableFields == <<"appId", "tenant", "description", "mcps">>

\* the last invocation was a connection_update of a connection that the
\* registry holds
UpdateCase ==
    /\ last.tool = "connection_update"
    /\ Truthy(GivenName)
    /\ IsDict(BeforeRegistry)
    /\ HasName(Conns(BeforeRegistry), GivenName)

\* the connection the update addresses, as it was
OldConn == Lookup(Conns(BeforeRegistry), GivenName)

\* the connection the update addresses, as a load finds it afterwards
NewConnNow == Lookup(Conns(load_registry(file)), GivenName)

\* the last invocation returned the success result of connection_update
UpdateSucceeded ==
    /\ last.impl.kind = "return"
    /\ last.impl.val.key = "success"

\* the last invocation returned this error or message and wrote nothing
UpdateLeftAlone(key, fmt) ==
    /\ last.impl.kind = "return"
    /\ last.impl.val.key = key
    /\ last.impl.val.fmt = fmt
    /\ file = last.before
    /\ ~last.saved

\* the registry differs from the one before in the addressed connection only
OnlyAddressedChanged ==
    LET cs == Conns(BeforeRegistry)
    IN  load_registry(file)
          = [BeforeRegistry EXCEPT
                !["connections"] =
                    [i \in DOMAIN cs |->
                        IF cs[i].name = GivenName
                        THEN [name |-> GivenName, conn |-> NewConnNow] ELSE cs[i]]]

\* C12 as first stated: after a successful update every field that was
\* supplied has the supplied value, every field that was not supplied
\* keeps its value, every other connection is unchanged and the returned
\* 'updated' list is exactly the set of fields that changed; a malformed
\* appId rejects the update and changes nothing.
C12_PartialUpdateExact ==
    UpdateCase
        => LET given == {k \in DOMAIN UpdatableFields :
                            UpdatableFields[k] \in DOMAIN last.args}
               supplied == {UpdatableFields[k] : k \in given}
               changed == {fld \in DOMAIN NewConnNow :
                              fld \notin DOMAIN OldConn \/ NewConnNow[fld] # OldConn[fld]}
           IN  /\ UpdateSucceeded
                    => /\ \A fld \in supplied : NewConnNow[fld] = last.args[fld]
                       /\ \A fld \in DOMAIN OldConn \ supplied :
                             NewConnNow[fld] = OldConn[fld]
                       /\ OnlyAddressedChanged
                       /\ {last.impl.val.arg[i] : i \in DOMAIN last.impl.val.arg}
                             = {<<fld>> : fld \in changed}
               /\ ("appId" \in supplied /\ ~WellFormedGuid(last.args["appId"]))
                    => UpdateLeftAlone("error", "Invalid appId: {}")

\* what re.match(r'^...$', s) accepts: the pattern, then at most one "\n"
MatchesGuidPattern(s) ==
    \/ WellFormedGuid(s)
    \/ /\ Len(s) = 37
       /\ s[37] = "\n"
       /\ WellFormedGuid(SubSeq(s, 1, 36))

\* C12: after a successful update every field among appId, tenant,
\* description, mcps that was supplied non-empty has the supplied value
\* (appId, tenant and description with surrounding whitespace removed),
\* every other field (expectedEmail included) keeps its value, every other
\* connection is unchanged, and the returned 'updated' list is the list of
\* the fields supplied non-empty, whether or not their value changed; a
\* supplied appId that does not match the GUID pattern as supplied
\* rejects the update and changes nothing.
C12_PartialUpdateStripped ==
    UpdateCase
        => LET given == SelectSeq(UpdatableFields,
                                  LAMBDA fld : Get(last.args, fld, <<>>) # <<>>)
               supplied == {given[i] : i \in DOMAIN given}
               badId == "appId" \in supplied /\ ~MatchesGuidPattern(last.args["appId"])
           IN  /\ badId => UpdateLeftAlone("error", "Invalid appId: {}")
               /\ (~badId /\ supplied # {} /\ last.io = "ok")
                    => /\ UpdateSucceeded
                       /\ \A fld \in supplied :
                             NewConnNow[fld] = IF fld = "mcps" THEN last.args[fld]
                                               ELSE Strip(last.args[fld])
                       /\ DOMAIN NewConnNow = DOMAIN OldConn \cup supplied
                       /\ \A fld \in DOMAIN OldConn \ supplied :
                             NewConnNow[fld] = OldConn[fld]
                       /\ OnlyAddressedChanged
                       /\ last.impl.val.arg = [i \in DOMAIN given |-> <<given[i]>>]
                       /\ last.impl.val.conn = NewConnNow
               /\ UpdateSucceeded => (~badId /\ supplied # {} /\ last.io = "ok")

\* C12, its case: a tenant supplied with whitespace around it is stored
\* trimmed, the expectedEmail stays, and another connection is there
C12_Witness ==
    /\ UpdateCase
    /\ UpdateSucceeded
    /\ Len(Conns(BeforeRegistry)) = 2
    /\ "expectedEmail" \in DOMAIN OldConn
    /\ "expectedEmail" \in DOMAIN NewConnNow
    /\ "tenant" \in DOMAIN last.args
    /\ NewConnNow["tenant"] # OldConn["tenant"]
    /\ NewConnNow["tenant"] # last.args["tenant"]

\* the result of connection_update when there is nothing to change
NoChanges == Return(Text("message", "No changes", <<>>))

\* C13: connection_update on an existing connection with none of appId,
\* tenant, description, mcps supplied (an empty value counts as not
\* supplied) returns the "no changes" result, performs no write and leaves
\* the registry unchanged; whenever at least one of them is supplied
\* non-empty the operation does not report "no changes".
C13_NoChangesIffNothingSupplied ==
    UpdateCase
        => LET supplied == {fld \in {"appId", "tenant", "description", "mcps"} :
                               Get(last.args, fld, <<>>) # <<>>}
           IN  /\ (supplied = {}) <=> (last.impl = NoChanges)
               /\ (supplied = {}) => (file = last.before /\ ~last.saved)

\* C13, its case: only an empty tenant comes with the name
C13_Witness ==
    /\ UpdateCase
    /\ last.impl = NoChanges
    /\ "tenant" \in DOMAIN last.args
    /\ file = last.before
    /\ file.exists

\* the last invocation was a registry tool that found a readable registry
\* file and whose save, if any, did not fail after the file was opened
RegistryToolCase ==
    /\ last.tool \in {"connection_add", "connection_remove", "connection_update"}
    /\ last.before.exists
    /\ Parse(last.before.data).ok
    /\ IsDict(BeforeRegistry)
    /\ last.io # "write_fails"

Malformed(f) == ~f.exists \/ ~Parse(f.data).ok \/ ~IsDict(Parse(f.data).val)

\* the last invocation was an operation that reads the registry
ReadsRegistry == last.tool \notin {"none", "list", "pwsh_sessions"}

\* every answer the pool gave the last invocation is an object
PoolAnswersObjects ==
    \A i \in DOMAIN last.nets :
        last.nets[i].kind = "json" => IsDict(last.nets[i].body)

\* C15: load is fail-soft: when the registry file is missing or its
\* content is malformed, load returns an empty registry and every gateway
\* operation that reads the registry completes with a normal result or a
\* structured error, never with a raised fault.
C15_LoadFailsSoft ==
    (ReadsRegistry /\ Malformed(last.before) /\ PoolAnswersObjects)
        => /\ BeforeRegistry = EmptyRegistry
           /\ last.impl.kind = "return"

----------------------------------------------------------------------------
(* Failing saves, under SpecConc *)

\* p's save_registry returned False
SaveReturnedFalse(p) == pc[p] = "failed"

\* p holds the lock only between its flock(LOCK_EX) and its flock(LOCK_UN)
HeldOnlyWhileWriting(p) == lock = p => pc[p] = "locked"

\* C16: save never raises: any failure while opening, locking or writing
\* makes it return false, the lock (if acquired) is released on the
\* success and on the failure path, and the operation that called it
\* returns the generic "Failed to save" error to the caller.
C16_SaveNeverRaises ==
    \A p \in Procs :
        /\ HeldOnlyWhileWriting(p)
        /\ SaveReturnedFalse(p) => res[p] = Text("error", "Failed to save", <<>>)
        /\ pc[p] = "done" => res[p].key \in {"success", "error"} /\ res[p].fmt # "Failed to save"

\* a write failed under the lock after part of the document had reached the
\* file, and the lock is free again
C16_Witness ==
    \E p \in Procs :
        /\ SaveReturnedFalse(p)
        /\ wpos[p] > 0
        /\ lock = NoProc
        /\ res[p].fmt = "Failed to save"

----------------------------------------------------------------------------
(* The pool clients *)

\* what the client of the last invocation's adapter returns for net
ClientResult(adapter, net) ==
    IF adapter = "mm" THEN call_pool(net) ELSE api_call(net)

\* result is a structured error with status "error" and a description
StructuredError(result) ==
    /\ IsDict(result)
    /\ "status" \in DOMAIN result
    /\ result["status"] = "error"
    /\ "error" \in DOMAIN result

\* the error shape the client owes for a transport failure
ErrorShape(net, result) ==
    /\ net.kind \in {"timeout", "fail"} => StructuredError(result)
    /\ net.kind = "timeout" => result["error"] = <<"Request timed out">>

\* C17: the pool client never raises and has one error shape: for every
\* endpoint and method, a transport timeout returns {status: "error",
\* error: "Request timed out"} and any other transport failure returns a
\* structured error with status "error" carrying the failure description,
\* in call_pool and in api_call.
C17_OneErrorShape ==
    \A i \in DOMAIN last.nets \cap DOMAIN last.calls :
        ErrorShape(last.nets[i], ClientResult(last.adapter, last.nets[i]))

----------------------------------------------------------------------------
(* The Auth-State Dispatcher, under Spec *)

\* the last invocation was a run that sent the command to the pool
RunDispatched ==
    /\ last.adapter = "mm"
    /\ last.tool = "run"
    /\ Len(last.calls) = 1
    /\ last.calls[1].endpoint = "/run"

\* the response the dispatcher was given
PoolResponse == call_pool(last.nets[1])

PoolStatus == Get(PoolResponse, "status", "None")

\* the connection the run named, as the registry file has it
RunConnConfig == ConnConfig(BeforeRegistry, last.args["connection"])

\* the text returned is the rendering that belongs to the status
RenderingOfStatus(status, text) ==
    CASE status = "success"          -> text.fmt \in {"{}", "(no output)"}
      [] status = "error"            ->
            /\ text.fmt = "Error: {}"
            /\ "error" \in DOMAIN PoolResponse => text.arg = <<PoolResponse["error"]>>
      [] status = "auth_required"    -> text.fmt = "DEVICE CODE, devicelogin, hint, retry"
      [] status = "auth_in_progress" ->
            text.fmt = "Auth in progress by another caller. Retry in a few seconds."
      [] OTHER -> text.fmt = "json.dumps(result)" /\ text.raw = PoolResponse

\* C18: the run dispatcher is total and deterministic over the pool
\* response's status: every response maps to exactly one of the five
\* renderings (success, error, auth_required, auth_in_progress, unknown);
\* status "error" surfaces the pool's error field verbatim, and any other
\* status value, an absent status included, is rendered as the raw
\* structured response.
C18_DispatcherTotal ==
    (RunDispatched /\ IsDict(PoolResponse))
        => /\ last.impl.kind = "return"
           /\ RenderingOfStatus(PoolStatus, last.impl.val)

\* the dispatcher rendered a response whose status is s
RenderedStatus(s) ==
    /\ RunDispatched
    /\ IsDict(PoolResponse)
    /\ PoolStatus = s
    /\ last.impl.kind = "return"

ExpectedEmail == Get(RunConnConfig, "expectedEmail", <<>>)

ConnTenant == Get(RunConnConfig, "tenant", <<>>)

\* the parts of the device-code text after the device code and before the
\* connection and the module: the sign-in hint
HintOf(text) == SubSeq(text.arg, 2, Len(text.arg) - 2)

\* C19: for a pool response with status auth_required the rendered result
\* contains the response's device code, the sign-in URL and a retry
\* instruction; the sign-in hint shows the resolved connection's
\* expectedEmail whenever it is set, and is derived from the connection's
\* tenant only when expectedEmail is not set.
C19_AuthRequiredRendering ==
    RenderedStatus("auth_required")
        => /\ last.impl.val.fmt = "DEVICE CODE, devicelogin, hint, retry"
           /\ last.impl.val.arg[1] = Get(PoolResponse, "device_code", <<>>)
           /\ Truthy(ExpectedEmail)
                 => HintOf(last.impl.val) = << <<"SIGN IN AS">>, ExpectedEmail >>
           /\ (~Truthy(ExpectedEmail) /\ Truthy(ConnTenant))
                 => HintOf(last.impl.val) = << <<"Sign in with your @{} account">>, ConnTenant >>
           /\ (~Truthy(ExpectedEmail) /\ ~Truthy(ConnTenant))
                 => HintOf(last.impl.val) = <<>>

\* a device-code text whose hint is the expectedEmail of a connection that
\* also has a tenant
C19_Witness ==
    /\ RenderedStatus("auth_required")
    /\ Truthy(ExpectedEmail)
    /\ Truthy(ConnTenant)
    /\ Truthy(last.impl.val.arg[1])
    /\ HintOf(last.impl.val)[2] = ExpectedEmail

\* the output of the response without its control sequences
CleanOutput == StripCursor(StripSgr(Get(PoolResponse, "output", <<>>)))

AuthenticatedAs == Get(PoolResponse, "authenticated_as", <<>>)

\* the response names an identity, the connection expects one, and the two
\* differ when both are lowercased
Mismatch ==
    /\ Truthy(AuthenticatedAs)
    /\ IsDict(BeforeRegistry)
    /\ Truthy(ExpectedEmail)
    /\ Lower(ExpectedEmail) # Lower(AuthenticatedAs)

WarningText ==
    <<"WARNING: Wrong account! Expected ">> \o ExpectedEmail
    \o <<", got ">> \o AuthenticatedAs \o <<"\n", "\n">>

\* s ends with t
EndsWith(s, t) == Len(t) <= Len(s) /\ SubSeq(s, Len(s) - Len(t) + 1, Len(s)) = t

\* the text returned begins with the mismatch warning
Warned ==
    /\ last.impl.kind = "return"
    /\ last.impl.val.fmt = "{}"
    /\ Len(last.impl.val.arg[1]) >= 1
    /\ last.impl.val.arg[1][1] = "WARNING: Wrong account! Expected "

\* C20: for a pool response with status success a mismatch warning is
\* prepended to the output if and only if the response carries
\* authenticated_as, the resolved connection has an expectedEmail, and the
\* two differ when compared case-insensitively; a mismatch never turns the
\* call into an error, and the command output, control sequences stripped,
\* is still present after the warning.
C20_MismatchWarning ==
    (RunDispatched /\ IsDict(PoolResponse) /\ PoolStatus = "success")
        => /\ Warned <=> Mismatch
           /\ Mismatch
                 => /\ last.impl.kind = "return"
                    /\ last.impl.val.key = "text"
                    /\ last.impl.val.arg[1] = Strip(WarningText \o CleanOutput)
                    /\ EndsWith(last.impl.val.arg[1], Strip(CleanOutput))

\* a warned result that still shows a non-empty command output
C20_Witness ==
    /\ RunDispatched
    /\ IsDict(PoolResponse)
    /\ PoolStatus = "success"
    /\ Mismatch
    /\ Warned
    /\ Truthy(Strip(CleanOutput))
    /\ CleanOutput # Get(PoolResponse, "output", <<>>)

\* s without the cursor-visibility sequences ESC [ ? 2 5 h and ESC [ ? 2 5 l
RECURSIVE StripVisibility(_)
StripVisibility(s) ==
    IF s = <<>> THEN <<>>
    ELSE IF /\ Len(s) >= 6
            /\ SubSeq(s, 1, 5) = <<ESC, "[", "?", "2", "5">>
            /\ s[6] \in {"h", "l"}
    THEN StripVisibility(SubSeq(s, 7, Len(s)))
    ELSE <<s[1]>> \o StripVisibility(Tail(s))

\* the output with its graphic-rendition and cursor-visibility sequences
\* removed and nothing else
NamedSequencesRemoved == StripVisibility(StripSgr(Get(PoolResponse, "output", <<>>)))

\* the text of a returned result, as a string
TextOf(text) == IF text.fmt = "{}" THEN text.arg[1] ELSE <<text.fmt>>

\* C21: for a pool response with status success the rendered result is
\* never empty or all whitespace: an output that is empty or all whitespace
\* after control-sequence stripping is rendered as the "(no output)" marker,
\* and otherwise the stripping removes only the graphic-rendition and the
\* cursor-visibility sequences and leaves every other character of the
\* output untouched.
C21_NoOutputMarker ==
    RenderedStatus("success")
        => /\ Truthy(Strip(TextOf(last.impl.val)))
           /\ ~Truthy(Strip(CleanOutput)) => last.impl.val.fmt = "(no output)"
           /\ Truthy(Strip(CleanOutput))
                 => EndsWith(TextOf(last.impl.val), Strip(NamedSequencesRemoved))

----------------------------------------------------------------------------
(* Requests sent to the pool by run, under Spec *)

\* the requests of the last invocation that went to endpoint
CallsTo(endpoint) == SelectSeq(last.calls, LAMBDA c : c.endpoint = endpoint)

RunConnection == Get(last.args, "connection", <<>>)
RunModule == Get(last.args, "module", "")
RunCommand == Get(last.args, "command", "")

\* the last invocation was microsoft-master's run with all three arguments
RunRequested ==
    /\ last.adapter = "mm"
    /\ last.tool = "run"
    /\ Truthy(RunConnection) /\ RunModule # "" /\ RunCommand # ""

\* the pool asked for authentication, or said that it is under way
AuthPending ==
    /\ RunRequested
    /\ IsDict(PoolResponse)
    /\ PoolStatus \in {"auth_in_progress", "auth_required"}

RetryTexts ==
    {"Auth in progress by another caller. Retry in a few seconds.",
     "DEVICE CODE, devicelogin, hint, retry"}

\* C22: the gateway never re-triggers or coordinates authentication
\* itself: one run invocation sends at most one request to the pool's run
\* endpoint, and when the response status is auth_in_progress (or
\* auth_required) it returns a retry instruction without any further pool
\* call: no login call and no retry of run.
C22_NoAuthRetrigger ==
    /\ last.tool \in {"run", "pwsh_run"}
          => Len(CallsTo("/run")) <= 1 /\ CallsTo("/login") = <<>>
    /\ AuthPending
          => /\ Len(last.calls) = 1
             /\ last.calls[1].endpoint = "/run"
             /\ last.impl.kind = "return" => last.impl.val.fmt \in RetryTexts
             /\ PoolStatus = "auth_in_progress" => last.impl.kind = "return"

\* run was told that another caller is authenticating and answered with the
\* retry instruction after its single request
C22_Witness ==
    /\ AuthPending
    /\ PoolStatus = "auth_in_progress"
    /\ last.impl.kind = "return"
    /\ last.impl.val.fmt = "Auth in progress by another caller. Retry in a few seconds."
    /\ Len(last.calls) = 1

\* how many of connection, module and command the last run was given
GivenCount ==
    (IF Truthy(RunConnection) THEN 1 ELSE 0)
    + (IF RunModule # "" THEN 1 ELSE 0)
    + (IF RunCommand # "" THEN 1 ELSE 0)

AllThreeRequired ==
    Return(Text("text", "Error: connection, module, and command are all required", <<>>))

\* C23: validation errors are reported without any remote call: run with
\* connection, module and command all absent is a discovery call; run with
\* at least one but not all three present returns the "all three required"
\* error and sends nothing to the pool; only run with all three present
\* sends a request to the pool's run endpoint.
C23_ValidationBeforeCall ==
    (last.adapter = "mm" /\ last.tool = "run")
        => /\ GivenCount = 0
                => /\ last.calls # <<>>
                   /\ last.calls[1].endpoint = "/connections"
                   /\ CallsTo("/run") = <<>>
           /\ GivenCount \in {1, 2}
                => last.impl = AllThreeRequired /\ last.calls = <<>>
           /\ GivenCount = 3
                => Len(last.calls) = 1 /\ last.calls[1].endpoint = "/run"

\* a run with a connection and a command but no module was refused before
\* anything was sent
C23_Witness ==
    /\ last.adapter = "mm" /\ last.tool = "run"
    /\ Truthy(RunConnection) /\ RunModule = "" /\ RunCommand # ""
    /\ last.impl = AllThreeRequired
    /\ last.calls = <<>>

----------------------------------------------------------------------------
(* Invariants of the registry under the registry tools, under Spec *)

\* the connections of the registry file as load_registry reads it now
ConnsOf(registry) == IF IsDict(registry) THEN Conns(registry) ELSE <<>>

StoredConns == ConnsOf(load_registry(file))

\* every connection of conns has an appId in the GUID format
AppIdsAreGuids(conns) ==
    \A i \in DOMAIN conns :
        /\ "appId" \in DOMAIN conns[i].conn
        /\ WellFormedGuid(conns[i].conn["appId"])

\* C24: starting from a registry in which every connection's appId matches
\* the GUID format, after any sequence of connection_add, connection_update
\* and connection_remove calls, whatever their arguments (values with
\* surrounding whitespace included), the appId of every stored connection
\* still matches the GUID format exactly.
C24_StoredAppIdsAreGuids == AppIdsAreGuids(StoredConns)

\* an update whose appId was supplied with a newline after it was accepted
\* and saved
C24_Witness ==
    /\ last.tool = "connection_update"
    /\ last.impl.kind = "return"
    /\ last.impl.val.key = "success"
    /\ "appId" \in DOMAIN last.args
    /\ last.args["appId"] = Guid1 \o <<"\n">>
    /\ StoredConns # <<>>

\* what a connection_remove with the name argument of the last call would
\* do to the registry file as it is now
RemoveAgain == _connection_remove([name |-> last.args["name"]], file, "ok")

\* C25: every connection that connection_add stores has a non-empty name,
\* tenant and description and can be removed again: whenever
\* connection_add reports success, a following connection_remove with the
\* same name argument succeeds and deletes the connection the add created.
C25_AddedCanBeRemoved ==
    AddSucceeded
        => /\ Truthy(GivenName)
           /\ HasName(StoredConns, GivenName)
           /\ Truthy(Lookup(StoredConns, GivenName)["tenant"])
           /\ Truthy(Lookup(StoredConns, GivenName)["description"])
           /\ RemoveAgain.out.kind = "return"
           /\ RemoveAgain.out.val.key = "success"
           /\ ~HasName(ConnsOf(load_registry(RemoveAgain.file)), GivenName)

----------------------------------------------------------------------------
(* pwsh-manager: the request loop of main, one input line at a time *)

MaxLines == 3

\* request.get("id") of a request without an id, or with "id": null
NoId == [kind |-> "None"]

\* the id of the request sent as the n-th line
IdOf(n) == [kind |-> "id", n |-> n]

Methods == {"initialize", "tools/list", "tools/call", "resources/list"}

\* the params a request of method m comes with: a tools/call names
\* pwsh_sessions or has params that are no object
LoopParams(m) ==
    IF m = "tools/call"
    THEN {[name |-> "pwsh_sessions", arguments |-> <<>>], NonDict}
    ELSE {<<>>}

\* the lines the client may send as its n-th line: text that is no JSON,
\* JSON that is no object, the initialized notification, and requests that
\* carry n as their id or carry none
InputLines(n) ==
    {[kind |-> "text"], [kind |-> "json", value |-> NonDict],
     [kind |-> "json", value |-> [method |-> "notifications/initialized"]]}
    \cup UNION {{[kind |-> "json", value |-> [method |-> m, params |-> p, id |-> IdOf(n)]] :
                    p \in LoopParams(m)} : m \in Methods}
    \cup UNION {{[kind |-> "json", value |-> [method |-> m, params |-> p]] :
                    p \in LoopParams(m)} : m \in Methods}

\* what the pool answers to /sessions
LoopNets == {NetJson([sessions |-> <<>>]), NetJson(NonDict), NetTimeout}

\* lines 400-403 and 408-415: a response is written when request_id is
\* not None; n is the line being served
Written(rid, kind, n) ==
    IF rid = NoId THEN <<>> ELSE <<[id |-> rid, kind |-> kind, line |-> n]>>

\* lines 407-415, the handler of "except Exception": it reads request_id,
\* which is not assigned before the first request has been parsed
OnException(rid, n) ==
    IF rid = Unbound
    THEN [request_id |-> rid, out |-> <<>>, crashed |-> TRUE]
    ELSE [request_id |-> rid, out |-> Written(rid, "error", n), crashed |-> FALSE]

\* lines 381-403 for a request that is an object; handled is what
\* handle_call_tool does when it is called
Served(method, params, rid, handled, n) ==
    IF method = "notifications/initialized"
    THEN [request_id |-> rid, out |-> <<>>, crashed |-> FALSE]
    ELSE IF method = "tools/call" /\ (~IsDict(params) \/ handled.kind = "raise")
    THEN OnException(rid, n)
    ELSE [request_id |-> rid, out |-> Written(rid, "result", n), crashed |-> FALSE]

\* lines 374-415: one turn of the loop for a line that is not the end of
\* input; rid is request_id as the earlier turns left it
main(line, rid, handled, n) ==
    IF line.kind = "text"
    THEN [request_id |-> rid, out |-> <<>>, crashed |-> FALSE]
    ELSE IF ~IsDict(line.value)
    THEN OnException(rid, n)
    ELSE Served(Get(line.value, "method", ""), Get(line.value, "params", <<>>),
                Get(line.value, "id", NoId), handled, n)

\* handle_call_tool(params.get("name", ""), params.get("arguments", {}))
Handled(line, net, logRaises) ==
    IF /\ line.kind = "json" /\ IsDict(line.value)
       /\ Get(line.value, "method", "") = "tools/call"
       /\ IsDict(Get(line.value, "params", <<>>))
    THEN handle_call_tool(Get(line.value["params"], "name", ""),
                          Get(line.value["params"], "arguments", <<>>),
                          file, net, logRaises).out
    ELSE Return(NoResult)

Turn(line, r) ==
    /\ stdin' = Append(stdin, line)
    /\ request_id' = r.request_id
    /\ stdout' = stdout \o r.out
    /\ mpc' = IF r.crashed THEN "crashed" ELSE "running"
    /\ UNCHANGED <<file, last>>
    /\ UNCHANGED procVars

\* readline returns a line
ReadLine ==
    /\ mpc = "running"
    /\ Len(stdin) < MaxLines
    /\ \E line \in InputLines(Len(stdin) + 1), net \in LoopNets, logRaises \in BOOLEAN :
          Turn(line, main(line, request_id, Handled(line, net, logRaises), Len(stdin) + 1))

\* lines 376-378: readline returns "" at the end of input and the loop ends
ReadEof ==
    /\ mpc = "running"
    /\ mpc' = "ended"
    /\ UNCHANGED <<file, last, stdin, request_id, stdout>>
    /\ UNCHANGED procVars

InitLoop ==
    /\ file = FileOf(SeedRegistry)
    /\ last = NoCall
    /\ ProcInit

NextLoop == ReadLine \/ ReadEof

SpecLoop == InitLoop /\ [][NextLoop]_vars

----------------------------------------------------------------------------
(* Properties of the request loop, under SpecLoop *)

\* the id the n-th line carries, NoId when it is no request with an id
IdOfLine(n) ==
    IF stdin[n].kind = "json" /\ IsDict(stdin[n].value)
    THEN Get(stdin[n].value, "id", NoId)
    ELSE NoId

\* the responses written while the n-th line was served
ResponsesAt(n) == SelectSeq(stdout, LAMBDA r : r.line = n)

\* C26: in the pwsh-manager request loop, over any sequence of input lines
\* (requests, notifications, unparseable lines, lines that parse to a
\* non-object, requests whose handler raises), each request that carries an
\* id receives exactly one response and that response carries its id; a
\* request without an id and an unparseable line receive no response; no
\* response is ever written with the id of an earlier request; and the loop
\* ends only at the end of input.
C26_OneResponsePerRequest ==
    /\ mpc # "crashed"
    /\ \A n \in DOMAIN stdin :
          /\ IdOfLine(n) # NoId
                => Len(ResponsesAt(n)) = 1 /\ ResponsesAt(n)[1].id = IdOfLine(n)
          /\ IdOfLine(n) = NoId => ResponsesAt(n) = <<>>

====
